---- MODULE Spec2Model ----
(***************************************************************************)
(* Model of plot_load_test_results.py: a straight-line script that loads   *)
(* ./load_test_results/summary.csv, groups its rows by Workload, draws two *)
(* charts and saves them under ./load_test_results/plots/.                 *)
(*                                                                         *)
(* One action per statement of the script.  The input file and the output  *)
(* directory are the environment: Init draws them from bounded sets.  Spec *)
(* is one run of the script; TwoRuns runs it twice in sequence on the same *)
(* input (RunAgain starts the second process on the file system the first  *)
(* one left).                                                              *)
(*                                                                         *)
(* Library behaviour the model relies on (pandas / matplotlib / os):       *)
(*   - read_csv raises FileNotFoundError for an absent path and            *)
(*     EmptyDataError for a file with no header line; it does not check    *)
(*     which columns the header names; an empty cell is read as NaN;       *)
(*   - Series.unique() keeps first-occurrence order and keeps one NaN;     *)
(*   - NaN == x is False for every x, NaN included;                        *)
(*   - df[name] raises KeyError when the table has no such column;         *)
(*   - list indexing beyond the end raises IndexError;                     *)
(*   - makedirs(exist_ok=True) succeeds whether or not the directory       *)
(*     exists; savefig overwrites; rendering is deterministic;             *)
(*   - the style 'seaborn-darkgrid' is available (matplotlib < 3.8), and   *)
(*     the file system raises no permission or disk errors.                *)
(* The script never inspects Threads, AvgThroughput or AvgResponseTime: it *)
(* hands them to plot() unchanged.  Row k of the input therefore carries   *)
(* fixed, pairwise distinct values in these columns.  Workload values are  *)
(* only compared for equality, so the named workloads of an input are      *)
(* drawn in a fixed order of first use; the empty cell is drawn freely.    *)
(***************************************************************************)
EXTENDS Integers, Sequences, FiniteSets, TLC

\* ------------------------------------------------------------------ bounds

\* Largest number of data rows of an input file.
MaxRows == 5

\* ------------------------------------------------------- program constants

Columns == {"Workload", "Threads", "AvgThroughput", "AvgResponseTime"}

\* Mutant of colors: a palette with an entry typed twice.
colorsRepeated == <<"tab:blue", "tab:orange", "tab:blue", "tab:red">>

colors == <<"tab:blue", "tab:orange", "tab:green", "tab:red">>

figsize == <<10, 6>>

ThroughputPng == "clients_vs_throughput.png"

ResponseTimePng == "clients_vs_response_time.png"

SuccessMessage == "Plots saved to ./load_test_results/plots/"

\* --------------------------------------------------------------- the input

\* The value pandas gives a missing cell.
NaN == "nan"

\* The text of an empty cell.
EmptyCell == ""

WorkloadNames == <<"A", "B", "C", "D", "E", "F", "G", "H">>

RECURSIVE SeqRange(_)
SeqRange(s) == IF s = <<>> THEN {} ELSE {Head(s)} \cup SeqRange(Tail(s))

\* The Workload cells of the rows of an input of n rows: each cell is empty,
\* repeats a name used above it, or is the next unused name.
RECURSIVE WorkloadCells(_)
WorkloadCells(n) ==
    IF n = 0 THEN {<<>>}
    ELSE UNION { LET used == SeqRange(s) \ {EmptyCell}
                     next == WorkloadNames[Cardinality(used) + 1]
                 IN  {Append(s, c) : c \in used \cup {next, EmptyCell}}
               : s \in WorkloadCells(n - 1) }

\* The cell of column c in data row k (1-based) whose Workload cell is w.
Cell(c, k, w) ==
    CASE c = "Workload"        -> w
      [] c = "Threads"         -> k
      [] c = "AvgThroughput"   -> 90 * k + 10
      [] c = "AvgResponseTime" -> 2 * k + 8

FileRows(header, ws) ==
    [k \in 1..Len(ws) |-> [c \in header |-> Cell(c, k, ws[k])]]

\* The input files: absent, empty (no header line), or a header naming some
\* of the columns followed by at most MaxRows rows.
Files ==
    { [state |-> "absent", header |-> {}, rows |-> <<>>],
      [state |-> "empty",  header |-> {}, rows |-> <<>>] }
    \cup
    { [state |-> "csv", header |-> h, rows |-> FileRows(h, ws)] :
        h \in SUBSET Columns, ws \in UNION {WorkloadCells(n) : n \in 0..MaxRows} }

\* The content of an image path: no file, a file left by an earlier and
\* unrelated run, or (Render) what savefig writes for a figure.
NoFile == [kind |-> "none"]

StaleImage == [kind |-> "stale"]

\* The output directory before the first run: absent, or present with each
\* image absent or left over from an earlier, unrelated run.
FsStates ==
    { [dir |-> FALSE, tp |-> NoFile, rt |-> NoFile] }
    \cup
    { [dir |-> TRUE, tp |-> a, rt |-> b] : a, b \in {NoFile, StaleImage} }

\* ------------------------------------------------------------------- state

VARIABLES
    csv,        \* the input file (never written)
    fs,         \* plots directory: exists?, content of the two images
    pc,         \* the line the process is about to execute, "done" or "failed"
    error,      \* the uncaught exception that ended the process and the line
                \* that raised it (the traceback), or NoError
    df,         \* the loaded table, or NoTable
    workloads,  \* df['Workload'].unique()
    i,          \* the loop index of enumerate(workloads), 1-based
    figs,       \* pyplot's open figures, the current one last
    stdout,     \* lines printed by this process
    written,    \* images this process has written
    run,        \* 1 or 2: which of the two runs is executing
    fs0,        \* fs when this process started
    first       \* how the first run ended, or NoRun

vars == <<csv, fs, pc, error, df, workloads, i, figs, stdout, written, run, fs0, first>>

NoTable == [columns |-> {}, rows |-> <<>>]

NoError == [type |-> "none", line |-> "none"]

NoRun == [pc |-> "none", error |-> NoError, fs0 |-> [dir |-> FALSE, tp |-> NoFile, rt |-> NoFile],
          fs |-> [dir |-> FALSE, tp |-> NoFile, rt |-> NoFile], stdout |-> <<>>, written |-> {}]

\* ------------------------------------------------------------ pure helpers

\* read_csv's conversion of a Workload cell.
ParseCell(text) == IF text = EmptyCell THEN NaN ELSE text

\* The table read_csv builds from a file with a header.
ParseTable(file) ==
    [columns |-> file.header,
     rows    |-> [k \in 1..Len(file.rows) |->
                     [c \in file.header |->
                         IF c = "Workload" THEN ParseCell(file.rows[k][c])
                                           ELSE file.rows[k][c]]]]

\* pandas' elementwise ==.
CellEq(a, b) == a # NaN /\ b # NaN /\ a = b

\* Membership as unique() decides it: all NaN count as one value.
Seen(v, s) == \E k \in 1..Len(s) : s[k] = v

RECURSIVE UniqueFrom(_, _)
UniqueFrom(vals, acc) ==
    IF vals = <<>> THEN acc
    ELSE UniqueFrom(Tail(vals),
                    IF Seen(Head(vals), acc) THEN acc ELSE Append(acc, Head(vals)))

\* Series.unique(): the distinct values in order of first occurrence.
Unique(vals) == UniqueFrom(vals, <<>>)

ColumnOf(table, c) == [k \in 1..Len(table.rows) |-> table.rows[k][c]]

RECURSIVE SelectRows(_, _)
SelectRows(rows, w) ==
    IF rows = <<>> THEN <<>>
    ELSE IF CellEq(Head(rows)["Workload"], w)
         THEN <<Head(rows)>> \o SelectRows(Tail(rows), w)
         ELSE SelectRows(Tail(rows), w)

\* Mutant of Filter: wdf = df, the mask forgotten.
FilterNothing(table, w) == table

\* df[df['Workload'] == workload]
Filter(table, w) == [columns |-> table.columns, rows |-> SelectRows(table.rows, w)]

NewFigure == [figsize |-> figsize, series |-> <<>>, xlabel |-> "", ylabel |-> "",
              title |-> "", legend |-> <<>>]

\* plt.plot(x, y, marker='o', label=..., color=...)
Line(wdf, metric, w, color) ==
    [x |-> ColumnOf(wdf, "Threads"), y |-> ColumnOf(wdf, metric), marker |-> "o",
     label |-> w, color |-> color]

\* What savefig writes: a function of the figure alone.
Render(fig) == [kind |-> "png", figure |-> fig]

Current == figs[Len(figs)]

SetCurrent(f) == [figs EXCEPT ![Len(figs)] = f]

\* An uncaught exception: the process ends with a traceback.
Fail(e) == /\ pc' = "failed"
           /\ error' = [type |-> e, line |-> pc]

\* ----------------------------------------------------------------- actions

Init ==
    /\ csv \in Files
    /\ fs \in FsStates
    /\ fs0 = fs
    /\ pc = "L5"
    /\ error = NoError
    /\ df = NoTable
    /\ workloads = <<>>
    /\ i = 0
    /\ figs = <<>>
    /\ stdout = <<>>
    /\ written = {}
    /\ run = 1
    /\ first = NoRun

\* Mutant of ReadCsv: the plots directory is created before the file is read
\* (lines 12 and 5 swapped).
ReadCsvAfterMakeDirs ==
    /\ pc = "L5"
    /\ fs' = [fs EXCEPT !.dir = TRUE]
    /\ IF csv.state = "absent" THEN Fail("FileNotFoundError") /\ UNCHANGED df
       ELSE IF csv.state = "empty" THEN Fail("EmptyDataError") /\ UNCHANGED df
       ELSE /\ df' = ParseTable(csv)
            /\ pc' = "L8"
            /\ UNCHANGED error
    /\ UNCHANGED <<csv, workloads, i, figs, stdout, written, run, fs0, first>>

\* Mutant of ReadCsv: the loader insists on the four columns
\* (read_csv(..., usecols=[...]) raises ValueError when one is not there).
ReadCsvValidating ==
    /\ pc = "L5"
    /\ IF csv.state = "absent" THEN Fail("FileNotFoundError") /\ UNCHANGED df
       ELSE IF csv.state = "empty" THEN Fail("EmptyDataError") /\ UNCHANGED df
       ELSE IF csv.header # Columns THEN Fail("ValueError") /\ UNCHANGED df
       ELSE /\ df' = ParseTable(csv)
            /\ pc' = "L8"
            /\ UNCHANGED error
    /\ UNCHANGED <<csv, fs, workloads, i, figs, stdout, written, run, fs0, first>>

\* line 5: df = pd.read_csv('./load_test_results/summary.csv')
ReadCsv ==
    /\ pc = "L5"
    /\ IF csv.state = "absent" THEN Fail("FileNotFoundError") /\ UNCHANGED df
       ELSE IF csv.state = "empty" THEN Fail("EmptyDataError") /\ UNCHANGED df
       ELSE /\ df' = ParseTable(csv)
            /\ pc' = "L8"
            /\ UNCHANGED error
    /\ UNCHANGED <<csv, fs, workloads, i, figs, stdout, written, run, fs0, first>>

\* line 8: workloads = df['Workload'].unique()
GroupWorkloads ==
    /\ pc = "L8"
    /\ IF "Workload" \notin df.columns THEN Fail("KeyError") /\ UNCHANGED workloads
       ELSE /\ workloads' = Unique(ColumnOf(df, "Workload"))
            /\ pc' = "L12"
            /\ UNCHANGED error
    /\ UNCHANGED <<csv, fs, df, i, figs, stdout, written, run, fs0, first>>

\* Mutant of MakeDirs: the directory is never created.
MakeDirsSkipped ==
    /\ pc = "L12"
    /\ pc' = "L15"
    /\ UNCHANGED <<csv, fs, error, df, workloads, i, figs, stdout, written, run, fs0, first>>

\* Mutant of MakeDirs: os.makedirs(path) without exist_ok=True.
MakeDirsNotExistOk ==
    /\ pc = "L12"
    /\ IF fs.dir THEN Fail("FileExistsError") /\ UNCHANGED fs
       ELSE /\ fs' = [fs EXCEPT !.dir = TRUE]
            /\ pc' = "L15"
            /\ UNCHANGED error
    /\ UNCHANGED <<csv, df, workloads, i, figs, stdout, written, run, fs0, first>>

\* line 12: os.makedirs('./load_test_results/plots', exist_ok=True)
MakeDirs ==
    /\ pc = "L12"
    /\ fs' = [fs EXCEPT !.dir = TRUE]
    /\ pc' = "L15"
    /\ UNCHANGED <<csv, error, df, workloads, i, figs, stdout, written, run, fs0, first>>

\* lines 15-16: plt.style.use(...); colors = [...]
PlotConfig ==
    /\ pc = "L15"
    /\ pc' = "L19"
    /\ UNCHANGED <<csv, fs, error, df, workloads, i, figs, stdout, written, run, fs0, first>>

\* lines 19 and 31: plt.figure(figsize=(10, 6)), then the for loop starts
Figure(here, loop) ==
    /\ pc = here
    /\ figs' = Append(figs, NewFigure)
    /\ i' = 1
    /\ pc' = loop
    /\ UNCHANGED <<csv, fs, error, df, workloads, stdout, written, run, fs0, first>>

\* lines 20 and 32: for i, workload in enumerate(workloads) has a next item,
\* or is exhausted.
InLoop(loop) == pc = loop /\ i <= Len(workloads)

LoopOver(loop) == pc = loop /\ i > Len(workloads)

\* Mutant of PlotLine: the palette is cycled, colors[i % len(colors)].
PlotLineCycling(loop, metric) ==
    /\ InLoop(loop)
    /\ LET w   == workloads[i]
           wdf == Filter(df, w)
       IN  IF "Threads" \notin wdf.columns \/ metric \notin wdf.columns
           THEN Fail("KeyError") /\ UNCHANGED <<figs, i>>
           ELSE /\ figs' = SetCurrent([Current EXCEPT
                              !.series = Append(@, Line(wdf, metric, w,
                                             colors[((i - 1) % Len(colors)) + 1]))])
                /\ i' = i + 1
                /\ UNCHANGED <<pc, error>>
    /\ UNCHANGED <<csv, fs, df, workloads, stdout, written, run, fs0, first>>

\* lines 20-22 and 32-34: one iteration of the loop body.  The arguments of
\* plot() are evaluated left to right: wdf['Threads'], wdf[metric], colors[i].
PlotLine(loop, metric) ==
    /\ InLoop(loop)
    /\ LET w   == workloads[i]
           wdf == Filter(df, w)
       IN  IF "Threads" \notin wdf.columns \/ metric \notin wdf.columns
           THEN Fail("KeyError") /\ UNCHANGED <<figs, i>>
           ELSE IF i > Len(colors)
           THEN Fail("IndexError") /\ UNCHANGED <<figs, i>>
           ELSE /\ figs' = SetCurrent([Current EXCEPT
                              !.series = Append(@, Line(wdf, metric, w, colors[i]))])
                /\ i' = i + 1
                /\ UNCHANGED <<pc, error>>
    /\ UNCHANGED <<csv, fs, df, workloads, stdout, written, run, fs0, first>>

\* lines 23-26 and 35-38: the loop is over; xlabel, ylabel, title, legend
Decorate(loop, next, yl, t) ==
    /\ LoopOver(loop)
    /\ figs' = SetCurrent([Current EXCEPT
                   !.xlabel = "Number of Clients (Threads)",
                   !.ylabel = yl,
                   !.title  = t,
                   !.legend = [k \in 1..Len(Current.series) |-> Current.series[k].label]])
    /\ pc' = next
    /\ UNCHANGED <<csv, fs, error, df, workloads, i, stdout, written, run, fs0, first>>

\* lines 27 and 39: plt.savefig(path)
SaveFig(here, next, name) ==
    /\ pc = here
    /\ IF ~fs.dir THEN Fail("FileNotFoundError") /\ UNCHANGED <<fs, written>>
       ELSE /\ fs' = IF name = ThroughputPng THEN [fs EXCEPT !.tp = Render(Current)]
                                             ELSE [fs EXCEPT !.rt = Render(Current)]
            /\ written' = written \cup {name}
            /\ pc' = next
            /\ UNCHANGED error
    /\ UNCHANGED <<csv, df, workloads, i, figs, stdout, run, fs0, first>>

\* Mutant of Close: plt.close() forgotten.
CloseNothing(here, next) ==
    /\ pc = here
    /\ pc' = next
    /\ UNCHANGED <<csv, fs, error, df, workloads, i, figs, stdout, written, run, fs0, first>>

\* lines 28 and 40: plt.close()
Close(here, next) ==
    /\ pc = here
    /\ figs' = SubSeq(figs, 1, Len(figs) - 1)
    /\ pc' = next
    /\ UNCHANGED <<csv, fs, error, df, workloads, i, stdout, written, run, fs0, first>>

ThroughputFigure == Figure("L19", "L20")

ThroughputLine == PlotLine("L20", "AvgThroughput")

ThroughputDecorate ==
    Decorate("L20", "L27", "Average Throughput (requests/sec)",
             "Number of Clients vs Throughput")

\* Mutant of ThroughputSave: the first savefig carries the second one's path.
ThroughputSaveWrongPath == SaveFig("L27", "L28", ResponseTimePng)

ThroughputSave == SaveFig("L27", "L28", ThroughputPng)

ThroughputClose == Close("L28", "L31")

ResponseTimeFigure == Figure("L31", "L32")

\* Mutant of ResponseTimeLine: the second loop still plots AvgThroughput.
ResponseTimeLinePlotsThroughput == PlotLine("L32", "AvgThroughput")

ResponseTimeLine == PlotLine("L32", "AvgResponseTime")

ResponseTimeDecorate ==
    Decorate("L32", "L39", "Average Response Time (ms)",
             "Number of Clients vs Average Response Time")

ResponseTimeSave == SaveFig("L39", "L40", ResponseTimePng)

ResponseTimeClose == Close("L40", "L42")

\* line 42: print("Plots saved to ./load_test_results/plots/")
PrintSaved ==
    /\ pc = "L42"
    /\ stdout' = Append(stdout, SuccessMessage)
    /\ pc' = "done"
    /\ UNCHANGED <<csv, fs, error, df, workloads, i, figs, written, run, fs0, first>>

Ended == pc \in {"done", "failed"}

\* The script is started again: a new process, the same input file, the
\* file system as the first process left it.
RunAgain ==
    /\ Ended
    /\ run = 1
    /\ first' = [pc |-> pc, error |-> error, fs0 |-> fs0, fs |-> fs,
                 stdout |-> stdout, written |-> written]
    /\ run' = 2
    /\ fs0' = fs
    /\ pc' = "L5"
    /\ error' = NoError
    /\ df' = NoTable
    /\ workloads' = <<>>
    /\ i' = 0
    /\ figs' = <<>>
    /\ stdout' = <<>>
    /\ written' = {}
    /\ UNCHANGED <<csv, fs>>

Next ==
    \/ ReadCsv
    \/ GroupWorkloads
    \/ MakeDirs
    \/ PlotConfig
    \/ ThroughputFigure
    \/ ThroughputLine
    \/ ThroughputDecorate
    \/ ThroughputSave
    \/ ThroughputClose
    \/ ResponseTimeFigure
    \/ ResponseTimeLine
    \/ ResponseTimeDecorate
    \/ ResponseTimeSave
    \/ ResponseTimeClose
    \/ PrintSaved

\* One run of the script.
Spec == Init /\ [][Next]_vars

NextTwice ==
    \/ Next
    \/ RunAgain

\* Two runs of the script in sequence on the same input.
TwoRuns == Init /\ [][NextTwice]_vars

\* ------------------------------------------------- vocabulary of the claims

HasHeader == csv.state = "csv"

Has(c) == HasHeader /\ c \in csv.header

NumRows == Len(csv.rows)

\* The Workload value of row k of the table: the cell's text, or NaN for an
\* empty cell.
WorkloadAt(k) ==
    IF csv.rows[k]["Workload"] = EmptyCell THEN NaN ELSE csv.rows[k]["Workload"]

\* The distinct Workload values of the table (a missing value counts as one).
WorkloadValues ==
    IF Has("Workload") THEN {WorkloadAt(k) : k \in 1..NumRows} ELSE {}

NumDistinct == Cardinality(WorkloadValues)

BothImages == {ThroughputPng, ResponseTimePng}

\* The statements of the script in execution order.
Lines == <<"L5", "L8", "L12", "L15", "L19", "L20", "L27", "L28",
           "L31", "L32", "L39", "L40", "L42", "done">>

Rank(l) == CHOOSE k \in 1..Len(Lines) : Lines[k] = l

\* The statement the process is at, or the one whose exception ended it.
Pos == IF pc = "failed" THEN error.line ELSE pc

\* The statement at line l has been executed without raising.
Completed(l) == Rank(Pos) > Rank(l)

\* Some statement can execute: the process is at a straight-line statement,
\* or at a loop that has a next item or is exhausted.
CanStep ==
    \/ pc \in {"L5", "L8", "L12", "L15", "L19", "L27", "L28", "L31", "L39", "L40", "L42"}
    \/ \E loop \in {"L20", "L32"} : InLoop(loop) \/ LoopOver(loop)

\* CanStep is the enabling condition of Next.
CanStepIsEnabled == CanStep <=> ENABLED Next

\* The image at a path, and the column its chart plots against Threads.
ImageAt(name) == IF name = ThroughputPng THEN fs.tp ELSE fs.rt

MetricOf(name) == IF name = ThroughputPng THEN "AvgThroughput" ELSE "AvgResponseTime"

SeriesOf(name) == ImageAt(name).figure.series

\* ---------------------------------------------------------------------- C1

\* C1 (precondition): the table has all four columns and 1 to 4 distinct
\* Workload values.
C1_Pre == HasHeader /\ csv.header = Columns /\ NumDistinct \in 1..Len(colors)

\* C1: for every input table with all four required columns and between 1
\* and 4 distinct Workload values the run never fails, never stops before the
\* end, and at its end both images have been written by the run and the
\* success message has been printed, whatever the plots directory held
\* before the run.
C1_RunSucceeds ==
    C1_Pre =>
        /\ pc # "failed"
        /\ error = NoError
        /\ ~Ended => CanStep
        /\ pc = "done" =>
              /\ written = BothImages
              /\ fs.dir
              /\ fs.tp.kind = "png"
              /\ fs.rt.kind = "png"
              /\ stdout = <<SuccessMessage>>

\* C1 witness: a first run over 4 workloads has ended in success although the
\* plots directory did not exist before it.
C1_Witness ==
    /\ C1_Pre
    /\ NumDistinct = Len(colors)
    /\ pc = "done"
    /\ ~fs0.dir

\* ---------------------------------------------------------------------- C2

DistinctColors(s) == \A j, k \in 1..Len(s) : j # k => s[j].color # s[k].color

OneLinePerWorkload(s) ==
    /\ Len(s) = NumDistinct
    /\ \A w \in WorkloadValues : Cardinality({k \in 1..Len(s) : s[k].label = w}) = 1

\* C2: for every input table with 2 to 4 distinct Workload values, each chart
\* the run has written contains exactly one line per distinct workload, no
\* two lines of a chart share a color, and a workload has the same color in
\* the throughput chart as in the response-time chart.
C2_OneLineOneColor ==
    (Has("Workload") /\ NumDistinct \in 2..Len(colors)) =>
        /\ \A name \in written :
              /\ OneLinePerWorkload(SeriesOf(name))
              /\ DistinctColors(SeriesOf(name))
        /\ written = BothImages =>
              \A j \in 1..Len(fs.tp.figure.series), k \in 1..Len(fs.rt.figure.series) :
                  fs.tp.figure.series[j].label = fs.rt.figure.series[k].label
                      => fs.tp.figure.series[j].color = fs.rt.figure.series[k].color

\* C2 witness: both charts have been written for a table of 3 workloads.
C2_Witness ==
    /\ Has("Workload")
    /\ NumDistinct = 3
    /\ written = BothImages
    /\ Len(fs.rt.figure.series) = 3

\* ---------------------------------------------------------------------- C3

\* C3 as stated (here for tables without a missing Workload): for every
\* input table with 5 or more distinct Workload values the run ends with an
\* IndexError raised while drawing the fifth workload of the throughput
\* chart, no image written, nothing printed.
C3_Original ==
    (Has("Workload") /\ NaN \notin WorkloadValues /\ NumDistinct > Len(colors) /\ Ended) =>
        /\ pc = "failed"
        /\ error = [type |-> "IndexError", line |-> "L20"]
        /\ i = Len(colors) + 1
        /\ written = {}
        /\ stdout = <<>>

\* C3 (precondition of the amended claim): the columns the throughput chart
\* reads are present.
C3_Pre ==
    /\ {"Workload", "Threads", "AvgThroughput"} \subseteq csv.header
    /\ HasHeader
    /\ NumDistinct > Len(colors)

\* C3 amended: for every input table that has the Workload, Threads and
\* AvgThroughput columns and 5 or more distinct Workload values, the run
\* never gets past the throughput loop: it ends with an IndexError raised
\* while drawing the fifth workload of the throughput chart, with four lines
\* drawn, the response-time chart never started, neither image written or
\* changed, and nothing printed.
C3_PaletteExhausted ==
    C3_Pre =>
        /\ Pos \in {"L5", "L8", "L12", "L15", "L19", "L20"}
        /\ written = {}
        /\ stdout = <<>>
        /\ fs.tp = fs0.tp
        /\ fs.rt = fs0.rt
        /\ Len(figs) <= 1
        /\ ~Ended => CanStep
        /\ Ended =>
              /\ pc = "failed"
              /\ error = [type |-> "IndexError", line |-> "L20"]
              /\ i = Len(colors) + 1
              /\ Len(figs) = 1
              /\ Len(Current.series) = Len(colors)

\* C3 witness: the run over 5 workloads has died of the IndexError.
C3_Witness ==
    /\ C3_Pre
    /\ pc = "failed"
    /\ error.type = "IndexError"

\* ---------------------------------------------------------------------- C4

\* C4: if the input file is absent the run fails at the load step with a
\* FileNotFoundError and has no file-system effect: the plots directory is
\* not created, no image is written, nothing is printed, and no later
\* statement runs.
C4_AbsentFile ==
    csv.state = "absent" =>
        /\ pc \in {"L5", "failed"}
        /\ pc = "failed" => error = [type |-> "FileNotFoundError", line |-> "L5"]
        /\ ~Ended => CanStep
        /\ fs = fs0
        /\ written = {}
        /\ stdout = <<>>
        /\ figs = <<>>

\* C4 witness: the run has failed on the absent file and there is still no
\* plots directory.
C4_Witness ==
    /\ csv.state = "absent"
    /\ pc = "failed"
    /\ ~fs.dir

\* ---------------------------------------------------------------------- C5

\* The first statement that reads a column the header lacks.
FirstMissingLine ==
    IF "Workload" \notin csv.header THEN "L8"
    ELSE IF "Threads" \notin csv.header \/ "AvgThroughput" \notin csv.header THEN "L20"
    ELSE "L32"

\* How a run ends that dies of the KeyError for the first missing column:
\* at grouping the plots directory has not been touched; in the throughput
\* chart the directory exists and no image has been written; in the
\* response-time chart the throughput image, and only it, has been written.
EndsAtFirstMissing ==
    /\ pc = "failed"
    /\ error = [type |-> "KeyError", line |-> FirstMissingLine]
    /\ FirstMissingLine = "L8" => fs = fs0 /\ written = {}
    /\ FirstMissingLine = "L20" =>
          fs.dir /\ written = {} /\ fs.tp = fs0.tp /\ fs.rt = fs0.rt /\ i = 1
    /\ FirstMissingLine = "L32" =>
          /\ fs.dir
          /\ written = {ThroughputPng}
          /\ fs.tp.kind = "png"
          /\ fs.rt = fs0.rt
          /\ i = 1

\* C5 as stated (here for files with a header line and no missing Workload):
\* whenever the input file exists but lacks a required column, loading
\* succeeds and the run dies of a KeyError at the first statement that reads
\* the missing column.
C5_Original ==
    (HasHeader /\ csv.header # Columns /\ NaN \notin WorkloadValues /\ Ended)
        => EndsAtFirstMissing

\* C5 (precondition of the amended claim): the file has a header line that
\* lacks a required column; unless the Workload column is the missing one
\* the table has at least one row; and if AvgResponseTime is the only
\* missing column the table has at most 4 distinct Workload values.
C5_Pre ==
    /\ HasHeader
    /\ csv.header # Columns
    /\ Has("Workload") => NumRows >= 1
    /\ FirstMissingLine = "L32" => NumDistinct <= Len(colors)

\* C5 amended: when the input file has a header line that lacks a required
\* column and, unless Workload is the missing column, at least one data row
\* and, if AvgResponseTime is the only missing column, at most 4 distinct
\* Workload values, then loading succeeds, every statement before the first
\* one that reads a missing column completes, and the run dies there of a
\* KeyError: at grouping, before the plots directory is created, for
\* Workload; at the first line of the throughput chart, after the directory
\* is created and before any image is written, for Threads or AvgThroughput;
\* at the first line of the response-time chart, after the throughput image
\* has been written, for AvgResponseTime.
C5_KeyErrorAtFirstAccess ==
    C5_Pre =>
        /\ Pos # "L5" => df = ParseTable(csv)
        /\ ~(pc = "failed" /\ error.line = "L5")
        /\ Rank(Pos) <= Rank(FirstMissingLine)
        /\ ~Ended => CanStep
        /\ Ended => EndsAtFirstMissing

\* C5 witness: the run has died in the response-time chart, the throughput
\* image already written.
C5_Witness ==
    /\ C5_Pre
    /\ pc = "failed"
    /\ error = [type |-> "KeyError", line |-> "L32"]
    /\ ThroughputPng \in written

\* ---------------------------------------------------------------------- C6

ColumnsRead(l) ==
    CASE l = "L8"  -> {"Workload"}
      [] l = "L20" -> {"Workload", "Threads", "AvgThroughput"}
      [] l = "L32" -> {"Workload", "Threads", "AvgResponseTime"}
      [] OTHER     -> {}

RowIndices == [k \in 1..NumRows |-> k]

\* The point row k contributes to the chart of a metric.
PointOf(k, metric) == <<csv.rows[k]["Threads"], csv.rows[k][metric]>>

\* The points of the rows whose Workload is w, in row order.  With asRead,
\* a missing Workload equals nothing (as the table compares it); without,
\* missing Workloads equal one another.
PointsOf(w, metric, asRead) ==
    LET mine(k) == WorkloadAt(k) = w /\ (asRead => w # NaN)
        sel == SelectSeq(RowIndices, mine)
    IN  [p \in 1..Len(sel) |-> PointOf(sel[p], metric)]

SeriesPoints(line) == [p \in 1..Len(line.x) |-> <<line.x[p], line.y[p]>>]

FirstRowOf(w) == CHOOSE k \in 1..NumRows :
                    WorkloadAt(k) = w /\ \A j \in 1..(k - 1) : WorkloadAt(j) # w

\* The lines of a chart are the distinct workloads in first-occurrence order.
InFirstOccurrenceOrder(s) ==
    /\ Len(s) = NumDistinct
    /\ {s[k].label : k \in 1..Len(s)} = WorkloadValues
    /\ \A a, b \in 1..Len(s) : a < b => FirstRowOf(s[a].label) < FirstRowOf(s[b].label)

\* How many points of the chart are the point of row k.
Occurrences(s, k, metric) ==
    Cardinality({jp \in {<<j, p>> : j \in 1..Len(s), p \in 1..NumRows} :
                    /\ jp[2] <= Len(s[jp[1]].x)
                    /\ SeriesPoints(s[jp[1]])[jp[2]] = PointOf(k, metric)})

\* C7 as stated (here for tables with all four columns): for every input
\* table with at most 4 distinct Workload values, each written chart has its
\* series in first-occurrence order, the series of w is the points of the
\* rows whose Workload is w in row order, and every row contributes exactly
\* one point to exactly one series.
C7_Original ==
    (HasHeader /\ csv.header = Columns /\ NumDistinct <= Len(colors)) =>
        \A name \in written :
            LET s == SeriesOf(name) IN
            /\ InFirstOccurrenceOrder(s)
            /\ \A j \in 1..Len(s) :
                  SeriesPoints(s[j]) = PointsOf(s[j].label, MetricOf(name), FALSE)
            /\ \A k \in 1..NumRows : Occurrences(s, k, MetricOf(name)) = 1

\* C7 amended: for every input table with at most 4 distinct Workload values
\* (a missing Workload counting as one value), each written chart has its
\* series in first-occurrence order of the workloads; the series of a
\* workload w that is not missing is exactly the (Threads, metric) points of
\* the rows whose Workload is w, in row order; the series of the missing
\* workload is empty; hence every row whose Workload is not missing
\* contributes exactly one point to exactly one series, and a row whose
\* Workload is missing contributes none.
C7_SeriesAreTheRows ==
    (Has("Workload") /\ NumDistinct <= Len(colors)) =>
        \A name \in written :
            LET s == SeriesOf(name) IN
            /\ InFirstOccurrenceOrder(s)
            /\ \A j \in 1..Len(s) :
                  /\ SeriesPoints(s[j]) = PointsOf(s[j].label, MetricOf(name), TRUE)
                  /\ Len(s[j].x) = Len(s[j].y)
                  /\ s[j].label = NaN => s[j].x = <<>>
            /\ \A k \in 1..NumRows :
                  Occurrences(s, k, MetricOf(name)) = IF WorkloadAt(k) = NaN THEN 0 ELSE 1

\* C7 witness: both charts are written for a table in which two workloads
\* interleave (B, A, B or the like) and one row has no Workload.
C7_Witness ==
    /\ Has("Workload")
    /\ written = BothImages
    /\ NumDistinct = 3
    /\ NaN \in WorkloadValues
    /\ \E a, b, c \in 1..NumRows :
          /\ a < b
          /\ b < c
          /\ WorkloadAt(a) = WorkloadAt(c)
          /\ WorkloadAt(a) # WorkloadAt(b)
          /\ WorkloadAt(a) # NaN
          /\ WorkloadAt(b) # NaN

\* ---------------------------------------------------------------------- C8

\* C8: running the script twice in sequence on the same input is idempotent:
\* from any initial output state, the second run ends as the first did (it
\* succeeds whenever the first does, prints the same, writes the same
\* images) and leaves the plots directory and both images exactly as the
\* first run left them.
C8_Idempotent ==
    (run = 2 /\ Ended) =>
        /\ first.pc = "done" => pc = "done"
        /\ pc = first.pc
        /\ error = first.error
        /\ stdout = first.stdout
        /\ written = first.written
        /\ fs = first.fs

\* C8 witness: the second run has succeeded over 2 or more workloads, where
\* the first run had started with a stale throughput image and no
\* response-time image.
C8_Witness ==
    /\ run = 2
    /\ pc = "done"
    /\ NumDistinct >= 2
    /\ first.fs0.tp = StaleImage
    /\ first.fs0.rt = NoFile

\* ---------------------------------------------------------------------- C9

\* C9 as stated (here for tables without a missing Workload): in every run
\* that ends in failure neither image has been written by that run.
C9_Original == (pc = "failed" /\ NaN \notin WorkloadValues) => written = {}

\* C9 amended: in every run that ends in failure the response-time image has
\* not been written or changed by that run and the success message has not
\* been printed; the throughput image has been written by the failing run
\* exactly when the failure is the KeyError raised in the response-time
\* chart for a missing AvgResponseTime column (the one partial result); in
\* every other failure neither image has been written or changed.
C9_OnlyPartialResult ==
    pc = "failed" =>
        /\ ResponseTimePng \notin written
        /\ fs.rt = fs0.rt
        /\ stdout = <<>>
        /\ ThroughputPng \in written <=> error = [type |-> "KeyError", line |-> "L32"]
        /\ error.line = "L32" => "AvgResponseTime" \notin csv.header
        /\ ThroughputPng \notin written => fs.tp = fs0.tp

\* C9 witness: a run has failed with the throughput image written and the
\* response-time image not.
C9_Witness ==
    /\ pc = "failed"
    /\ written = {ThroughputPng}
    /\ fs.rt = NoFile

\* --------------------------------------------------------------------- C10

\* C10: in every reachable state the completed steps are a prefix of load,
\* group, create directory, write throughput image, write response-time
\* image, print: the message is printed only if both images were written by
\* this run, the response-time image only if the throughput image, an image
\* only if the directory was created, the directory only if the table was
\* loaded and grouped; and at most one figure is open at any time.
C10_StepsFormPrefix ==
    /\ Pos \in SeqRange(Lines)
    /\ stdout \in {<<>>, <<SuccessMessage>>}
    /\ stdout # <<>> <=> pc = "done"
    /\ stdout # <<>> => written = BothImages
    /\ ResponseTimePng \in written <=> Completed("L39")
    /\ ThroughputPng \in written <=> Completed("L27")
    /\ ResponseTimePng \in written => ThroughputPng \in written
    /\ written # {} => Completed("L12")
    /\ Completed("L12") =>
          /\ fs.dir
          /\ Completed("L8")
          /\ HasHeader
          /\ df = ParseTable(csv)
          /\ Has("Workload")
          /\ Len(workloads) = NumDistinct
    /\ ~Completed("L12") => fs = fs0
    /\ ~Completed("L8") => workloads = <<>>
    /\ ~Completed("L5") => df = NoTable
    /\ Len(figs) <= 1
    /\ Len(figs) = 1 <=> Pos \in {"L20", "L27", "L28", "L32", "L39", "L40"}

\* C10 witness: both images are written, the second figure is still open and
\* the message is not yet printed.
C10_Witness ==
    /\ pc = "L40"
    /\ written = BothImages
    /\ Len(figs) = 1
    /\ stdout = <<>>

====
